---------------------------- MODULE Spec2Model ----------------------------
(***************************************************************************)
(* Model of the MACE EU verse backend (src/main.py): a Flask application   *)
(* that renders a daily verse into HTML, stores it as a file of a GitHub   *)
(* repository and lists, reads and parses those files back.                *)
(*                                                                         *)
(* Text is modelled as a sequence of atoms.  An atom is a single character *)
(* ("0", ",", " ") or a word that no operation of the program splits       *)
(* ("August", "bible_verse_", ".html").                                    *)
(***************************************************************************)
EXTENDS Integers, Sequences, FiniteSets, Bags, TLC

(***************************************************************************)
(* Bounds of the model.                                                    *)
(***************************************************************************)
\* longest field value drawn for the render/parse round trip
MaxFieldLen == 2
\* most create requests that are between their duplicate check and their write
MaxInFlight == 2

(***************************************************************************)
(* Characters and numbers.                                                 *)
(***************************************************************************)
DigitChar == <<"0", "1", "2", "3", "4", "5", "6", "7", "8", "9">>

Digits == {DigitChar[i] : i \in 1..10}

DigitValue == [c \in Digits |-> (CHOOSE i \in 1..10 : DigitChar[i] = c) - 1]

DigitVal(c) == DigitValue[c]

Whitespace == {" ", "\n"}

IsDigitAt(s, i) == i >= 1 /\ i <= Len(s) /\ s[i] \in Digits

\* value of the n digits of s starting at position i
RECURSIVE NumAt(_, _, _)
NumAt(s, i, n) ==
    IF n = 0 THEN 0 ELSE NumAt(s, i, n - 1) * 10 + DigitVal(s[i + n - 1])

AllDigits(s, i, n) == \A k \in i..(i + n - 1) : IsDigitAt(s, k)

\* zero-padded decimal rendering of v on n digits (%d, %m with two, %Y with four)
RECURSIVE Pad(_, _)
Pad(v, n) ==
    IF n = 0 THEN <<>> ELSE Pad(v \div 10, n - 1) \o <<DigitChar[(v % 10) + 1]>>

(***************************************************************************)
(* datetime: dates, strptime and strftime.                                 *)
(***************************************************************************)
MonthNames == <<"January", "February", "March", "April", "May", "June", "July",
                "August", "September", "October", "November", "December">>

\* strptime matches %B ignoring case; the lower-case spelling stands for the
\* spellings that differ from the canonical one in case only
LowerMonthNames == <<"january", "february", "march", "april", "may", "june", "july",
                     "august", "september", "october", "november", "december">>

MonthWords == {MonthNames[i] : i \in 1..12} \cup {LowerMonthNames[i] : i \in 1..12}

MonthNumber ==
    [w \in MonthWords |-> CHOOSE i \in 1..12 : MonthNames[i] = w \/ LowerMonthNames[i] = w]

\* the month a word names, 0 when it names none
MonthOf(w) == IF w \in MonthWords THEN MonthNumber[w] ELSE 0

IsLeap(y) == (y % 4 = 0 /\ y % 100 # 0) \/ y % 400 = 0

DaysInMonth(y, m) ==
    IF m = 2 THEN (IF IsLeap(y) THEN 29 ELSE 28)
    ELSE IF m \in {4, 6, 9, 11} THEN 30 ELSE 31

\* the value that stands for a raised ValueError
NoDate == [y |-> 0, m |-> 0, d |-> 0]

\* datetime(y, m, d): ValueError outside the calendar
MkDate(y, m, d) ==
    IF y >= 1 /\ m >= 1 /\ m <= 12 /\ d >= 1 /\ d <= DaysInMonth(y, m)
    THEN [y |-> y, m |-> m, d |-> d]
    ELSE NoDate

\* first position >= i of s that holds no blank
RECURSIVE SkipBlanks(_, _)
SkipBlanks(s, i) ==
    IF i <= Len(s) /\ s[i] \in Whitespace THEN SkipBlanks(s, i + 1) ELSE i

\* datetime.strptime(s, "%B %d, %Y"): month name, blanks, a day of one or two
\* digits, a comma, blanks, a year of four digits, and nothing after it
ParseDisplayDate(s) ==
    IF Len(s) < 2 \/ MonthOf(s[1]) = 0 \/ s[2] \notin Whitespace THEN NoDate
    ELSE
      LET j == SkipBlanks(s, 2)
          two == AllDigits(s, j, 2) /\ NumAt(s, j, 2) >= 1 /\ NumAt(s, j, 2) <= 31
          one == IsDigitAt(s, j) /\ s[j] # "0"
          k == IF two THEN j + 2 ELSE j + 1
          day == IF two THEN NumAt(s, j, 2) ELSE NumAt(s, j, 1)
      IN  IF ~(two \/ one) THEN NoDate
          ELSE IF ~(k + 1 <= Len(s) /\ s[k] = "," /\ s[k + 1] \in Whitespace) THEN NoDate
          ELSE LET q == SkipBlanks(s, k + 1)
               IN  IF AllDigits(s, q, 4) /\ Len(s) = q + 3
                   THEN MkDate(NumAt(s, q, 4), MonthOf(s[1]), day)
                   ELSE NoDate

\* datetime.strptime(s, "%Y-%m-%d") on a text of the shape \d{4}-\d{2}-\d{2}
ParseIsoDate(s) ==
    IF Len(s) = 10 /\ AllDigits(s, 1, 4) /\ s[5] = "-" /\ AllDigits(s, 6, 2)
       /\ s[8] = "-" /\ AllDigits(s, 9, 2)
    THEN MkDate(NumAt(s, 1, 4), NumAt(s, 6, 2), NumAt(s, 9, 2))
    ELSE NoDate

\* date_obj.strftime("%B %d, %Y")
FormatDisplayDate(dt) ==
    <<MonthNames[dt.m], " ">> \o Pad(dt.d, 2) \o <<",", " ">> \o Pad(dt.y, 4)

\* date_obj.strftime("%Y-%m-%d")
FormatIsoDate(dt) == Pad(dt.y, 4) \o <<"-">> \o Pad(dt.m, 2) \o <<"-">> \o Pad(dt.d, 2)

\* DateAfter with the comparison turned round
DateAfter_Before(a, b) ==
    \/ a.y < b.y
    \/ a.y = b.y /\ a.m < b.m
    \/ a.y = b.y /\ a.m = b.m /\ a.d < b.d

\* a > b on datetime objects
DateAfter(a, b) ==
    \/ a.y > b.y
    \/ a.y = b.y /\ a.m > b.m
    \/ a.y = b.y /\ a.m = b.m /\ a.d > b.d

(***************************************************************************)
(* Template Renderer and Content Parser.                                   *)
(***************************************************************************)
FieldNames == {"malayalam_verse", "malayalam_ref", "english_verse", "english_ref",
               "message_title", "message_paragraph1", "message_paragraph2"}

\* the value of a field that is absent from the request, None or ""
Empty == <<>>

NoFields == [f \in FieldNames |-> Empty]

\* the character U+2014 of the template's <cite> elements, as one atom
EmDash == "em-dash"

\* the line break and indentation around a value the template puts on its own line
Indent == <<"\n", " ">>

\* HTML_TEMPLATE.format(...): the text of each element of the page body that
\* holds a value, in document order
HTML_TEMPLATE(display_date, fields) ==
    [date        |-> display_date,
     blockquote1 |-> Indent \o fields.malayalam_verse \o Indent,
     cite1       |-> <<EmDash>> \o fields.malayalam_ref,
     blockquote2 |-> Indent \o <<"\"">> \o fields.english_verse \o <<"\"">> \o Indent,
     cite2       |-> <<EmDash, " ">> \o fields.english_ref,
     h3          |-> fields.message_title \o <<":">>,
     p1          |-> Indent \o fields.message_paragraph1 \o Indent,
     p2          |-> Indent \o fields.message_paragraph2 \o Indent]

RECURSIVE LStrip(_, _)
LStrip(s, cs) == IF s # <<>> /\ Head(s) \in cs THEN LStrip(Tail(s), cs) ELSE s

RECURSIVE RStrip(_, _)
RStrip(s, cs) ==
    IF s # <<>> /\ s[Len(s)] \in cs THEN RStrip(SubSeq(s, 1, Len(s) - 1), cs) ELSE s

\* str.strip(chars)
Strip(s, cs) == RStrip(LStrip(s, cs), cs)

\* elem.get_text(strip=True) of an element that holds one text node
GetText(text) == Strip(text, Whitespace)

\* str.replace(c, '')
RECURSIVE Remove(_, _)
Remove(s, c) ==
    IF s = <<>> THEN <<>>
    ELSE (IF Head(s) = c THEN <<>> ELSE <<Head(s)>>) \o Remove(Tail(s), c)

\* the extraction of get_verse_content_by_date from a page of the template
ParseVerse(html) ==
    [malayalam_verse    |-> GetText(html.blockquote1),
     malayalam_ref      |-> Remove(GetText(html.cite1), EmDash),
     english_verse      |-> Strip(GetText(html.blockquote2), {"\""}),
     english_ref        |-> Remove(GetText(html.cite2), EmDash),
     message_title      |-> Remove(GetText(html.h3), ":"),
     message_paragraph1 |-> GetText(html.p1),
     message_paragraph2 |-> GetText(html.p2)]

(***************************************************************************)
(* The remote store: the files of directory daily-verses on branch main.   *)
(***************************************************************************)
GITHUB_FILE_PATH_PREFIX == <<"daily-verses">>

\* GithubFilePath with the file named after the text of the request instead of
\* the parsed date
GithubFilePath_Raw(date_str) ==
    GITHUB_FILE_PATH_PREFIX \o <<"/", "bible_verse_">> \o date_str \o <<".html">>

\* strptime, strftime("%Y-%m-%d") and
\* f"{GITHUB_FILE_PATH_PREFIX}/bible_verse_{file_date_format}.html" on a date text
\* that parses
GithubFilePath(date_str) ==
    GITHUB_FILE_PATH_PREFIX \o <<"/", "bible_verse_">>
        \o FormatIsoDate(ParseDisplayDate(date_str)) \o <<".html">>

\* content.name of the entry at a path of the directory
NameOf(path) == SubSeq(path, 3, Len(path))

\* FILE_DATE_PATTERN.match(name).group(1): the pattern is matched at the start
\* of the name and need not reach its end; Empty when there is no match
FILE_DATE_PATTERN(name) ==
    IF /\ Len(name) >= 12
       /\ name[1] = "bible_verse_"
       /\ AllDigits(name, 2, 4) /\ name[6] = "-"
       /\ AllDigits(name, 7, 2) /\ name[9] = "-"
       /\ AllDigits(name, 10, 2)
       /\ name[12] = ".html"
    THEN SubSeq(name, 2, 11)
    ELSE Empty

\* content.name.endswith('.html')
EndsWithHtml(name) == name # <<>> /\ name[Len(name)] = ".html"

\* the date get_existing_verse_dates derives from one directory entry: the
\* datetime of its name, NoDate when the entry is skipped.  The directory holds
\* files only, so content.type == 'file' is true of every entry.
EntryDate(name) ==
    IF EndsWithHtml(name) /\ FILE_DATE_PATTERN(name) # Empty
    THEN ParseIsoDate(FILE_DATE_PATTERN(name))
    ELSE NoDate

\* the loop of get_existing_verse_dates over the directory entries
RECURSIVE ExistingDates(_)
ExistingDates(contents) ==
    IF contents = <<>> THEN <<>>
    ELSE (IF EntryDate(Head(contents)) # NoDate
          THEN <<FormatDisplayDate(EntryDate(Head(contents)))>>
          ELSE <<>>) \o ExistingDates(Tail(contents))

\* the loop of get_latest_verse_date: latest_date_obj after the entries of
\* contents, starting from latest (NoDate is None)
RECURSIVE LatestDateObj(_, _)
LatestDateObj(contents, latest) ==
    IF contents = <<>> THEN latest
    ELSE LET name == Head(contents)
             current == IF EndsWithHtml(name) /\ FILE_DATE_PATTERN(name) # Empty
                        THEN ParseIsoDate(FILE_DATE_PATTERN(name))
                        ELSE NoDate
         IN  LatestDateObj(Tail(contents),
                 IF current # NoDate /\ (latest = NoDate \/ DateAfter(current, latest))
                 THEN current ELSE latest)

(***************************************************************************)
(* Inputs of the requests and contents of the store at start-up.           *)
(***************************************************************************)
Aug05 == <<"August", " ", "0", "5", ",", " ", "2", "0", "2", "5">>

\* the same day as Aug05, spelled in lower case and without the leading zero
Aug5Lower == <<"august", " ", "5", ",", " ", "2", "0", "2", "5">>

Dec31 == <<"December", " ", "3", "1", ",", " ", "2", "0", "2", "4">>

\* "13/45/2024"
Slashes == <<"1", "3", "/", "4", "5", "/", "2", "0", "2", "4">>

DateInputs == {Aug05, Aug5Lower, Dec31, Slashes, Empty}

FieldsA ==
    [malayalam_verse    |-> <<"m">>,
     malayalam_ref      |-> <<"r", " ", "3", ":", "1">>,
     english_verse      |-> <<"e">>,
     english_ref        |-> <<"John", " ", "3", ":", "1", "6">>,
     message_title      |-> <<"t">>,
     message_paragraph1 |-> <<"p">>,
     message_paragraph2 |-> <<"q">>]

FieldsB == [FieldsA EXCEPT !.english_verse = <<"f">>, !.message_title = <<"u">>]

\* a request that leaves one of the required fields out
FieldsMissing == [FieldsA EXCEPT !.message_paragraph2 = Empty]

FieldInputs == {FieldsA, FieldsB, FieldsMissing}

\* names found in the directory that the program did not write; the listing
\* loops skip the entries they do not recognise, so the program expects them
Readme == <<"README", ".md">>

\* ends with .html, no verse file
IndexHtml == <<"index", ".html">>

\* bible_verse_2025-13-45.html: the pattern matches, the date does not parse
BadDateFile ==
    <<"bible_verse_", "2", "0", "2", "5", "-", "1", "3", "-", "4", "5", ".html">>

\* bible_verse_2025-09-01.html.html: the pattern matches a prefix of the name
SuffixedFile ==
    <<"bible_verse_", "2", "0", "2", "5", "-", "0", "9", "-", "0", "1", ".html", ".html">>

ForeignNames == {Readme, IndexHtml, BadDateFile, SuffixedFile}

\* the days whose verse file the store may hold at start-up
InitialVerseDates == {Aug05, Dec31}

(***************************************************************************)
(* State.                                                                  *)
(***************************************************************************)
VARIABLES
    repo,     \* TRUE when the module-level initialisation connected (repo is not None)
    files,    \* the remote directory: name of each file |-> its content
    pending,  \* the create requests between their duplicate check and their write
    last,     \* the request answered last, with its response
    records,  \* history: the verse records of the store, found at start-up or written
    rt        \* the render/parse round trip of RoundTripSpec

vars == <<repo, files, pending, last, records, rt>>

NoVerse == NoFields

NoPage == HTML_TEMPLATE(Empty, NoFields)

\* a request read from the wire, nothing done yet; status 0 is "no response".
\* html is html_content, NoPage until the page is rendered; message is the
\* text str(e) puts into the response of the handler's except clause, Empty
\* in every other response.  calls and late are history: the remote calls the
\* request made, and whether a write for its date had been answered with 200
\* when it arrived
Received(op, d, f) ==
    [op |-> op, date |-> d, fields |-> f, path |-> Empty, status |-> 0,
     success |-> "none", dates |-> <<>>, latest |-> Empty, verse |-> NoVerse,
     html |-> NoPage, message |-> Empty, calls |-> <<>>, late |-> FALSE]

NoRequest == Received("none", Empty, NoFields)

\* return jsonify({"success": ...}), status
Respond(q, status) ==
    [q EXCEPT !.status = status, !.success = IF status = 200 THEN "true" ELSE "false"]

\* one call of the PyGithub client, as the request's history records it
Call(q, fn, path, result) ==
    [q EXCEPT !.calls = @ \o <<[fn |-> fn, path |-> path, result |-> result]>>]

\* repo.get_contents(path, ref="main") on a file path: the outcomes the remote
\* can produce.  "Exception" is any failure other than 404.
GetFileOutcomes(path) ==
    {IF NameOf(path) \in DOMAIN files THEN "ok" ELSE "UnknownObjectException",
     "Exception"}

\* repo.get_contents(GITHUB_FILE_PATH_PREFIX, ref="main"): a git tree holds no
\* empty directory, so the directory is missing exactly when it has no file
GetDirOutcomes ==
    {IF DOMAIN files # {} THEN "ok" ELSE "UnknownObjectException", "Exception"}

\* repo.create_file(path, ...) without a blob sha: the contents API creates the
\* file when the path is free and rejects the call when it is taken
CreateFileOutcomes(path) ==
    IF NameOf(path) \in DOMAIN files THEN {"Exception"} ELSE {"ok", "Exception"}

\* the entries of the directory in the order the remote lists them
RECURSIVE Listing(_)
Listing(names) ==
    IF names = {} THEN <<>>
    ELSE LET n == CHOOSE n \in names : TRUE
         IN  <<n>> \o Listing(names \ {n})

RtIdle == [pc |-> "idle", fields |-> NoFields, html |-> NoPage, verse |-> NoVerse]

\* a verse record written for the day of date_str from fields f
Record(date_str, f, by) ==
    [date |-> ParseDisplayDate(date_str), path |-> GithubFilePath(date_str),
     html |-> HTML_TEMPLATE(FormatDisplayDate(ParseDisplayDate(date_str)), f), by |-> by]

\* the verse records of earlier runs
InitialRecords(verses) == {Record(d, FieldsA, "start") : d \in verses}

\* the directory at start-up: verse files of earlier runs and foreign files
InitialFiles(verses, others) ==
    [n \in {NameOf(a.path) : a \in InitialRecords(verses)} \cup others |->
        IF n \in others THEN NoPage
        ELSE (CHOOSE a \in InitialRecords(verses) : NameOf(a.path) = n).html]

\* the directories the program may find: none (no file yet), or the foreign
\* files next to any of the verse files; without a connection the program
\* never looks at the directory
InitialStores ==
    {<<{}, {}>>} \cup {<<verses, ForeignNames>> : verses \in SUBSET InitialVerseDates}

Init ==
    /\ repo \in BOOLEAN
    /\ \E st \in (IF repo THEN InitialStores ELSE {<<{}, {}>>}) :
          /\ files = InitialFiles(st[1], st[2])
          /\ records = InitialRecords(st[1])
    /\ pending = EmptyBag
    /\ last = NoRequest
    /\ rt = RtIdle

(***************************************************************************)
(* POST /generate_and_upload_verse.                                        *)
(***************************************************************************)
\* not all([manual_date_str, malayalam_verse, ..., message_paragraph2])
MissingFields(d, f) == d = Empty \/ \E k \in FieldNames : f[k] = Empty

\* ValidateCreate without the test for missing fields
ValidateCreate_DateOnly(d, f) == IF ParseDisplayDate(d) = NoDate THEN 400 ELSE 0

\* the validation of the create handler: 400, or 0 to go on
ValidateCreate(d, f) ==
    IF MissingFields(d, f) THEN 400
    ELSE IF ParseDisplayDate(d) = NoDate THEN 400
    ELSE 0

\* DuplicateCheck without the return of the conflict response
DuplicateCheck_Ignored(result) ==
    IF result \in {"ok", "UnknownObjectException"} THEN "write" ELSE "raise"

\* DuplicateCheck with every exception taken for "not found"
DuplicateCheck_Swallowed(result) == IF result = "ok" THEN "conflict" ELSE "write"

\* DuplicateCheck with the write attempted whatever the check returned
DuplicateCheck_Unchecked(result) == "write"

\* the duplicate prevention: what follows each outcome of get_contents
DuplicateCheck(result) ==
    IF result = "ok" THEN "conflict"
    ELSE IF result = "UnknownObjectException" THEN "write"
    ELSE "raise"

\* UploadStatus with a failed write reported as a conflict
UploadStatus_Conflict(result) == IF result = "ok" THEN 200 ELSE 409

\* UploadStatus with the failure response after every write
UploadStatus_AlwaysFailed(result) == 500

\* the status that follows the outcome of create_file
UploadStatus(result) == IF result = "ok" THEN 200 ELSE 500

\* f"Failed to push to GitHub: {str(e)}" for the exception a remote call raised
FailureMessage(e) == <<"Failed to push to GitHub: ", e>>

\* history: a write for the day of d was answered with 200 before
Acknowledged(d) ==
    \E a \in records : a.by = "api" /\ a.date = ParseDisplayDate(d)

\* the handler up to and including the duplicate check
GenerateAndUploadVerse(d, f) ==
    /\ BagCardinality(pending) < MaxInFlight
    /\ LET q == Received("create", d, f)
       IN  IF ~repo THEN last' = Respond(q, 500) /\ UNCHANGED pending
           ELSE IF ValidateCreate(d, f) # 0
           THEN last' = Respond(q, ValidateCreate(d, f)) /\ UNCHANGED pending
           ELSE \E result \in GetFileOutcomes(GithubFilePath(d)) :
                  LET path == GithubFilePath(d)
                      c == Call([q EXCEPT !.path = path, !.late = Acknowledged(d)],
                                "get_contents", path, result)
                  IN  IF DuplicateCheck(result) = "conflict"
                      THEN last' = Respond(c, 409) /\ UNCHANGED pending
                      ELSE IF DuplicateCheck(result) = "write"
                      THEN pending' = pending (+) SetToBag({c}) /\ UNCHANGED last
                      ELSE /\ last' = Respond([c EXCEPT !.message = FailureMessage(result)],
                                               500)
                           /\ UNCHANGED pending
    /\ UNCHANGED <<repo, files, records, rt>>

\* the handler from the rendering of the page to its response
UploadVerse(q) ==
    /\ BagIn(q, pending)
    /\ pending' = pending (-) SetToBag({q})
    /\ LET display_date == FormatDisplayDate(ParseDisplayDate(q.date))
           html_content == HTML_TEMPLATE(display_date, q.fields)
           rendered == [q EXCEPT !.html = html_content]
       IN  \E result \in CreateFileOutcomes(q.path) :
             /\ last' = Respond([Call(rendered, "create_file", q.path, result) EXCEPT
                                     !.message = IF result = "ok" THEN Empty
                                                 ELSE FailureMessage(result)],
                                UploadStatus(result))
             /\ IF result = "ok"
                THEN /\ files' = (NameOf(q.path) :> html_content) @@ files
                     /\ records' = records \cup
                           {[date |-> ParseDisplayDate(q.date), path |-> q.path,
                             html |-> html_content, by |-> "api"]}
                ELSE UNCHANGED <<files, records>>
    /\ UNCHANGED <<repo, rt>>

(***************************************************************************)
(* GET /get_existing_verse_dates.                                          *)
(***************************************************************************)
\* existing_dates of a directory that get_contents returned
ExistingVerseDates(fs) == ExistingDates(Listing(DOMAIN fs))

GetExistingVerseDates ==
    /\ LET q == Received("dates", Empty, NoFields)
       IN  IF ~repo THEN last' = Respond(q, 500)
           ELSE \E result \in GetDirOutcomes :
                  LET c == Call(q, "get_contents", GITHUB_FILE_PATH_PREFIX, result)
                  IN  last' =
                        IF result = "ok"
                        THEN Respond([c EXCEPT !.dates = ExistingVerseDates(files)], 200)
                        ELSE IF result = "UnknownObjectException" THEN Respond(c, 200)
                        ELSE Respond(c, 500)
    /\ UNCHANGED <<repo, files, pending, records, rt>>

(***************************************************************************)
(* GET /get_verse_content_by_date.                                         *)
(***************************************************************************)
\* ValidateFetch without the ValueError handler of strptime
ValidateFetch_Unparsed(d) == IF d = Empty THEN 400 ELSE 0

\* the validation of the fetch handler: 400, or 0 to go on
ValidateFetch(d) ==
    IF d = Empty THEN 400
    ELSE IF ParseDisplayDate(d) = NoDate THEN 400
    ELSE 0

\* ContentStatus without the UnknownObjectException handler
ContentStatus_NoNotFound(result) == IF result = "ok" THEN 200 ELSE 500

\* the status that follows the outcome of get_contents on the verse file
ContentStatus(result) ==
    IF result = "ok" THEN 200
    ELSE IF result = "UnknownObjectException" THEN 404
    ELSE 500

GetVerseContentByDate(d) ==
    /\ LET q == Received("content", d, NoFields)
       IN  IF ~repo THEN last' = Respond(q, 500)
           ELSE IF ValidateFetch(d) # 0 THEN last' = Respond(q, ValidateFetch(d))
           ELSE \E result \in GetFileOutcomes(GithubFilePath(d)) :
                  LET path == GithubFilePath(d)
                      c == Call([q EXCEPT !.path = path], "get_contents", path, result)
                  IN  last' =
                        IF result = "ok"
                        THEN Respond([c EXCEPT !.verse = ParseVerse(files[NameOf(path)])],
                                     ContentStatus(result))
                        ELSE Respond(c, ContentStatus(result))
    /\ UNCHANGED <<repo, files, pending, records, rt>>

(***************************************************************************)
(* GET /get_latest_verse_date.                                             *)
(***************************************************************************)
\* latest_date of a directory that get_contents returned; Empty is null
LatestVerseDate(fs) ==
    LET latest_date_obj == LatestDateObj(Listing(DOMAIN fs), NoDate)
    IN  IF latest_date_obj # NoDate THEN FormatDisplayDate(latest_date_obj) ELSE Empty

GetLatestVerseDate ==
    /\ LET q == Received("latest", Empty, NoFields)
       IN  IF ~repo THEN last' = Respond(q, 500)
           ELSE \E result \in GetDirOutcomes :
                  LET c == Call(q, "get_contents", GITHUB_FILE_PATH_PREFIX, result)
                  IN  last' =
                        IF result = "ok"
                        THEN Respond([c EXCEPT !.latest = LatestVerseDate(files)], 200)
                        ELSE IF result = "UnknownObjectException" THEN Respond(c, 200)
                        ELSE Respond(c, 500)
    /\ UNCHANGED <<repo, files, pending, records, rt>>

(***************************************************************************)
(* GET /.                                                                  *)
(***************************************************************************)
HealthCheck ==
    /\ LET q == Received("health", Empty, NoFields)
       IN  IF ~repo THEN last' = [q EXCEPT !.status = 500]
           ELSE \E result \in {"ok", "Exception"} :
                  last' = [Call(q, "get_branch", <<"main">>, result) EXCEPT
                              !.status = IF result = "ok" THEN 200 ELSE 500]
    /\ UNCHANGED <<repo, files, pending, records, rt>>

Next ==
    \/ \E d \in DateInputs, f \in FieldInputs : GenerateAndUploadVerse(d, f)
    \/ \E q \in BagToSet(pending) : UploadVerse(q)
    \/ GetExistingVerseDates
    \/ \E d \in DateInputs : GetVerseContentByDate(d)
    \/ GetLatestVerseDate
    \/ HealthCheck

Spec == Init /\ [][Next]_vars

(***************************************************************************)
(* The render/parse round trip on its own: a page is rendered from drawn   *)
(* field values and parsed back.                                           *)
(***************************************************************************)
\* the characters a drawn field value is made of: a letter, a blank, and the
\* characters the parser removes
FieldAtoms == {"a", " ", ":", EmDash, "\""}

RECURSIVE TextsOfLen(_)
TextsOfLen(n) ==
    IF n = 0 THEN {<<>>}
    ELSE {Append(s, c) : s \in TextsOfLen(n - 1), c \in FieldAtoms}

\* the non-empty texts of at most MaxFieldLen characters
FieldTexts == UNION {TextsOfLen(n) : n \in 1..MaxFieldLen}

\* one field holds a drawn text, the others a plain letter
RoundTripInputs ==
    {[k \in FieldNames |-> IF k = f THEN s ELSE <<"a">>] : f \in FieldNames, s \in FieldTexts}

RoundTripInit ==
    /\ repo = TRUE
    /\ files = InitialFiles({}, {})
    /\ records = {}
    /\ pending = EmptyBag
    /\ last = NoRequest
    /\ \E f \in RoundTripInputs : rt = [RtIdle EXCEPT !.pc = "input", !.fields = f]

\* generate_and_upload_verse, lines 378-387
RenderPage ==
    /\ rt.pc = "input"
    /\ rt' = [rt EXCEPT !.pc = "rendered",
                        !.html = HTML_TEMPLATE(FormatDisplayDate(ParseDisplayDate(Aug05)),
                                               rt.fields)]
    /\ UNCHANGED <<repo, files, pending, last, records>>

\* get_verse_content_by_date, lines 453-483
ParsePage ==
    /\ rt.pc = "rendered"
    /\ rt' = [rt EXCEPT !.pc = "parsed", !.verse = ParseVerse(rt.html)]
    /\ UNCHANGED <<repo, files, pending, last, records>>

RoundTripNext == RenderPage \/ ParsePage

RoundTripSpec == RoundTripInit /\ [][RoundTripNext]_vars

(***************************************************************************)
(* Properties.                                                             *)
(***************************************************************************)
\* the request in q has the eight fields and a date that parses
ValidCreate(q) == ~MissingFields(q.date, q.fields) /\ ParseDisplayDate(q.date) # NoDate

\* the page the create request in q asks for
PageOf(q) == HTML_TEMPLATE(FormatDisplayDate(ParseDisplayDate(q.date)), q.fields)

\* the result of the i-th remote call of the request in q, "none" without one
ResultOf(q, i) == IF Len(q.calls) >= i THEN q.calls[i].result ELSE "none"

\* C1: a create request whose existence check finds the file of its date ends
\* with 409, makes no create_file call, and the step that answers it leaves
\* every file of the store as it was.
C1_ExistingDateConflicts ==
    [][(last'.op = "create" /\ ResultOf(last', 1) = "ok")
         => /\ last'.status = 409
            /\ \A i \in 1..Len(last'.calls) : last'.calls[i].fn # "create_file"
            /\ files' = files]_vars

\* a create request with other field values than the stored page was refused
C1_Witness ==
    /\ last.op = "create" /\ ValidCreate(last) /\ last.status = 409
    /\ ResultOf(last, 1) = "ok"
    /\ files[NameOf(last.path)] # PageOf(last)

\* C3: the store holds at most one verse record per calendar date, and every
\* record, found at start-up or written, still has the content it was
\* written with.
C3_OneRecordPerDate ==
    /\ \A a, b \in records : a.date = b.date => a = b
    /\ \A a \in records :
          NameOf(a.path) \in DOMAIN files /\ files[NameOf(a.path)] = a.html

\* a write was acknowledged, and a later create request for the same day with
\* other field values has been refused
C3_Witness ==
    /\ last.op = "create" /\ ValidCreate(last) /\ last.status \in {409, 500}
    /\ \E a \in records :
          a.by = "api" /\ a.date = ParseDisplayDate(last.date) /\ a.html # PageOf(last)

\* C4: a create request that passed its existence check never ends with 409:
\* its write ends with 200 or 500, and with 500 and an unchanged store when
\* another request has taken the path since the check.
C4_LostRaceEndsIn500 ==
    [][\A q \in BagToSet(pending) :
          UploadVerse(q) =>
             /\ last'.status \in {200, 500}
             /\ NameOf(q.path) \in DOMAIN files => (last'.status = 500 /\ files' = files)]_vars

\* two create requests for one day both passed the existence check before
\* either wrote: one write was acknowledged, the other ended with 500
C4_Witness ==
    /\ last.op = "create" /\ last.status = 500
    /\ ResultOf(last, 1) = "UnknownObjectException" /\ ResultOf(last, 2) = "Exception"
    /\ \E a \in records : a.by = "api" /\ a.path = last.path

\* C2: rendering the fields of a create request with HTML_TEMPLATE and parsing
\* the page with the extraction of get_verse_content_by_date gives back every
\* field value.
C2_RoundTrip == rt.pc = "parsed" => rt.verse = rt.fields

\* the date of last does not parse in the format 'Month DD, YYYY'
MalformedDate(q) == q.op \in {"create", "content"} /\ ParseDisplayDate(q.date) = NoDate

\* C5 as stated: a create or fetch request whose date does not parse is
\* answered with 400 and makes no remote call.
C5_Original == MalformedDate(last) => (last.status = 400 /\ last.calls = <<>>)

\* C5 as amended: a create or fetch request whose date does not parse makes no
\* remote call at any point: it is answered before the first one, with 400
\* when the store is connected and with 500 when repo is None.
C5_MalformedDateNoRemoteCall ==
    /\ MalformedDate(last) =>
          (last.calls = <<>> /\ last.status = (IF repo THEN 400 ELSE 500))
    /\ \A q \in BagToSet(pending) : ~MalformedDate(q)

\* "13/45/2024" was rejected by both endpoints' validation
C5_Witness ==
    /\ repo /\ last.date = Slashes /\ last.status = 400
    /\ last.op = "content" \/ (last.op = "create" /\ ~MissingFields(last.date, last.fields))

\* the request in q fetches a day that parses and has no file in the store
FetchOfAbsent(q) ==
    /\ q.op = "content" /\ ParseDisplayDate(q.date) # NoDate
    /\ NameOf(GITHUB_FILE_PATH_PREFIX \o <<"/", "bible_verse_">>
                \o FormatIsoDate(ParseDisplayDate(q.date)) \o <<".html">>)
         \notin DOMAIN files

\* C6 as stated: fetching a well-formed date that has no file yields 404 with
\* success=false.
C6_Original == FetchOfAbsent(last) => (last.status = 404 /\ last.success = "false")

\* C6 as amended: fetching a well-formed date that has no file yields 404 with
\* success=false when the store is connected and get_contents answers not
\* found; it yields 500 with success=false when repo is None or get_contents
\* fails otherwise; it never yields 200 and never returns verse fields.
C6_AbsentIs404 ==
    FetchOfAbsent(last) =>
       /\ last.success = "false" /\ last.verse = NoVerse
       /\ last.status = (IF ~repo \/ ResultOf(last, 1) = "Exception" THEN 500 ELSE 404)
       /\ repo => ResultOf(last, 1) \in {"UnknownObjectException", "Exception"}

\* a fetch of a day without a file was answered 404
C6_Witness ==
    FetchOfAbsent(last) /\ last.status = 404 /\ ResultOf(last, 1) = "UnknownObjectException"

\* days since a fixed origin grow with this number
DayNumber(dt) == dt.y * 10000 + dt.m * 100 + dt.d

\* the chronologically latest of a list of 'Month DD, YYYY' texts, Empty (null)
\* for the empty list
ChronLatest(dates) ==
    IF dates = <<>> THEN Empty
    ELSE LET i == CHOOSE i \in 1..Len(dates) :
                     \A j \in 1..Len(dates) :
                        DayNumber(ParseDisplayDate(dates[j]))
                           <= DayNumber(ParseDisplayDate(dates[i]))
         IN  FormatDisplayDate(ParseDisplayDate(dates[i]))

\* C7: with the store unchanged between the two calls, the chronologically
\* latest of the dates GET /get_existing_verse_dates returns is the latest_date
\* GET /get_latest_verse_date returns, and latest_date is null exactly when the
\* list is empty.  (The store changes only in steps that replace last.)
C7_LatestAgreesWithListing ==
    /\ (last.op = "dates" /\ last.status = 200) =>
          /\ ChronLatest(last.dates) = LatestVerseDate(files)
          /\ (last.dates = <<>>) <=> (LatestVerseDate(files) = Empty)
    /\ (last.op = "latest" /\ last.status = 200) =>
          /\ last.latest = ChronLatest(ExistingVerseDates(files))
          /\ (last.latest = Empty) <=> (ExistingVerseDates(files) = <<>>)

\* the latest date was asked of a store that lists more than one date, the
\* first of which is not the latest
C7_Witness ==
    /\ last.op = "latest" /\ last.status = 200 /\ last.latest # Empty
    /\ Len(ExistingVerseDates(files)) >= 2
    /\ ExistingVerseDates(files)[1] # last.latest

\* a remote call of the request in q failed with an error other than not found
RemoteFailed(q) == \E i \in 1..Len(q.calls) : q.calls[i].result = "Exception"

\* the request in q wrote its record file
WroteFile(q) ==
    /\ \E i \in 1..Len(q.calls) : q.calls[i].fn = "create_file" /\ q.calls[i].result = "ok"
    /\ \E a \in records : a.by = "api" /\ a.path = q.path /\ a.html = PageOf(q)

\* C8 as stated: the status of a create request is 200 exactly when the file
\* was written, 400 whenever a field is missing or the date is malformed, 409
\* whenever the record of the date exists, 500 whenever the remote store fails
\* or repo is None.
C8_Original ==
    last.op = "create" =>
       /\ (last.status = 200) <=> WroteFile(last)
       /\ ~ValidCreate(last) => last.status = 400
       /\ ResultOf(last, 1) = "ok" => last.status = 409
       /\ (~repo \/ RemoteFailed(last)) => last.status = 500

\* C8 as amended: the cases are tried in the handler's order.  500 when repo
\* is None; otherwise 400 when a field is missing or the date is malformed;
\* otherwise 500 when the existence check fails; otherwise 409 when the check
\* finds the file; otherwise 500 when create_file fails (also when the path
\* was taken after the check); otherwise 200, and 200 exactly when the file was
\* written.
C8_StatusMapping ==
    last.op = "create" =>
       /\ last.status =
             (IF ~repo THEN 500
              ELSE IF ~ValidCreate(last) THEN 400
              ELSE IF ResultOf(last, 1) = "Exception" THEN 500
              ELSE IF ResultOf(last, 1) = "ok" THEN 409
              ELSE IF ResultOf(last, 2) = "Exception" THEN 500
              ELSE 200)
       /\ (last.status = 200) <=> WroteFile(last)
       /\ (repo /\ ValidCreate(last)) => ResultOf(last, 1) # "none"
       /\ ResultOf(last, 1) = "UnknownObjectException" => ResultOf(last, 2) # "none"

\* each of the four statuses has been returned to a create request; here 409
\* for a request that a connected store, complete fields and a good date let
\* through to the existence check
C8_Witness ==
    /\ last.op = "create" /\ repo /\ ValidCreate(last)
    /\ last.status = 409 /\ ResultOf(last, 1) = "ok"

\* C9 as stated: a request issues at most one remote call, and none after a
\* call failed.
C9_Original ==
    /\ Len(last.calls) <= 1
    /\ \A i \in 1..Len(last.calls) : last.calls[i].result = "Exception" => i = Len(last.calls)

\* the requests in flight and the one answered last
Served == BagToSet(pending) \cup {last}

\* C9 as amended: a list, fetch, latest or health request issues at most one
\* remote call; a create request issues at most two, the existence check
\* (get_contents) and then the write (create_file); no call is issued twice in
\* a request and none after a call failed.
C9_CallsBoundedNoRetry ==
    \A q \in Served :
       /\ Len(q.calls) <= (IF q.op = "create" THEN 2 ELSE 1)
       /\ \A i, j \in 1..Len(q.calls) : q.calls[i].fn = q.calls[j].fn => i = j
       /\ \A i \in 1..Len(q.calls) : q.calls[i].result = "Exception" => i = Len(q.calls)
       /\ Len(q.calls) = 2 =>
             (q.calls[1].fn = "get_contents" /\ q.calls[2].fn = "create_file")

\* a create request was answered after its two remote calls
C9_Witness ==
    last.op = "create" /\ Len(last.calls) = 2 /\ last.status = 200

\* the directory entries the listing derives a date from, in its order
RECURSIVE DatedEntries(_)
DatedEntries(contents) ==
    IF contents = <<>> THEN <<>>
    ELSE (IF EntryDate(Head(contents)) # NoDate THEN <<Head(contents)>> ELSE <<>>)
            \o DatedEntries(Tail(contents))

\* the name bible_verse_<ISO date>.html of the record file of a day
RecordFileName(dt) ==
    <<"bible_verse_">> \o Pad(dt.y, 4) \o <<"-">> \o Pad(dt.m, 2) \o <<"-">>
        \o Pad(dt.d, 2) \o <<".html">>

\* the first half of C10: once a create request for a day was answered 200, a
\* listing that succeeds includes the day in canonical form, a fetch of the
\* day is not answered 404, and a create request for it that arrives later
\* and reaches the store is answered 409.
C10_AfterAcknowledgement ==
    /\ (last.op = "dates" /\ last.status = 200) =>
          \A a \in records :
             a.by = "api" =>
                \E i \in 1..Len(last.dates) : last.dates[i] = FormatDisplayDate(a.date)
    /\ (last.op = "content" /\ ParseDisplayDate(last.date) # NoDate
          /\ Acknowledged(last.date)) => last.status # 404
    /\ (last.op = "create" /\ repo /\ ValidCreate(last) /\ last.late
          /\ ResultOf(last, 1) # "Exception") => last.status = 409

\* the second half of C10: every date of a listing, passed to fetch-by-date,
\* names the file it was derived from.
C10_ListedDatesResolve ==
    (last.op = "dates" /\ last.status = 200) =>
       \A i \in 1..Len(last.dates) :
          /\ i <= Len(DatedEntries(Listing(DOMAIN files)))
          /\ RecordFileName(ParseDisplayDate(last.dates[i]))
                = DatedEntries(Listing(DOMAIN files))[i]
          /\ NameOf(GithubFilePath(last.dates[i])) = DatedEntries(Listing(DOMAIN files))[i]

\* C10: after a create request for a day was answered 200, the listing
\* includes the day, its fetch is not 404 and a second create is answered 409;
\* and every listed date resolves to the file it was derived from.
C10_ListingAndFetchAgree == C10_AfterAcknowledgement /\ C10_ListedDatesResolve

\* C11: within a create request, create_file is called only as the second
\* remote call, after get_contents of the same request for the same path
\* answered not found, and with the page rendered by then; the page is rendered
\* only after the check answered not found, and the file written holds that
\* page.  When the check fails with another error the request ends with 500,
\* success=false and the failure message, with the check as its only remote
\* call and no page rendered.
C11_WriteOnlyAfterNotFound ==
    \A q \in Served :
       q.op = "create" =>
          /\ \A i \in 1..Len(q.calls) :
                q.calls[i].fn = "create_file" =>
                   /\ i = 2
                   /\ q.calls[1] = [fn |-> "get_contents", path |-> q.calls[i].path,
                                    result |-> "UnknownObjectException"]
                   /\ q.calls[i].path = GithubFilePath(q.date)
                   /\ q.html = PageOf(q)
          /\ q.html # NoPage =>
                (ResultOf(q, 1) = "UnknownObjectException" /\ ResultOf(q, 2) # "none")
          /\ WroteFile(q) => files[NameOf(q.path)] = q.html
          /\ ResultOf(q, 1) = "Exception" =>
                /\ q.status = 500 /\ q.success = "false"
                /\ q.message = <<"Failed to push to GitHub: ", "Exception">>
                /\ Len(q.calls) = 1 /\ q.html = NoPage

\* the existence check of a create request with good fields failed with an
\* error other than not found, in a store an earlier request has written to
C11_Witness ==
    /\ last.op = "create" /\ ValidCreate(last)
    /\ ResultOf(last, 1) = "Exception" /\ last.status = 500
    /\ last.message # Empty /\ Len(last.calls) = 1
    /\ \E a \in records : a.by = "api"

\* C12: a step changes the directory only when it answers a create request
\* with 200, and then it adds exactly one file, the record file of the
\* requested date with the rendered page, under a name the directory did not
\* hold, and leaves every other file as it was.  So the list, fetch, latest and
\* health requests and the create requests answered 400, 409 or 500 before the
\* write leave the directory unchanged, and no file is ever updated or
\* deleted.  Every create request answered 200 has added its file.
C12_OnlyCreateAddsOneFile ==
    [][/\ files' # files =>
             /\ last'.op = "create" /\ last'.status = 200 /\ last'.success = "true"
             /\ RecordFileName(ParseDisplayDate(last'.date)) \notin DOMAIN files
             /\ DOMAIN files' =
                   DOMAIN files \cup {RecordFileName(ParseDisplayDate(last'.date))}
             /\ files'[RecordFileName(ParseDisplayDate(last'.date))] = PageOf(last')
       /\ \A n \in DOMAIN files : n \in DOMAIN files' /\ files'[n] = files[n]
       /\ \A q \in BagToSet(pending) :
             (UploadVerse(q) /\ last'.status = 200) =>
                Cardinality(DOMAIN files') = Cardinality(DOMAIN files) + 1
       /\ (last' # last /\ ~(last'.op = "create" /\ last'.status = 200)) =>
             files' = files]_vars

\* a create request was answered 200 in a directory that held a verse file of
\* an earlier run and the foreign files, all of which are still as they were
C12_Witness ==
    /\ last.op = "create" /\ last.status = 200 /\ WroteFile(last)
    /\ \E a \in records :
          a.by = "start" /\ a.path # last.path /\ files[NameOf(a.path)] = a.html
    /\ \A n \in ForeignNames : n \in DOMAIN files /\ files[n] = NoPage

=============================================================================
